---------------------------- MODULE Spec2Model ----------------------------
(***************************************************************************)
(* Model of export_and_adapt.py: the SQLite -> PostgreSQL export script.   *)
(*                                                                         *)
(* Three specifications share the module:                                  *)
(*   Spec       one or two runs of the script over a source catalog        *)
(*   SpecClean  the cell cleaning functions applied to one raw value       *)
(*   SpecLoad   the generated load script executed twice by a destination  *)
(***************************************************************************)
EXTENDS Integers, Sequences, FiniteSets, TLC

VARIABLES
    \* ---- the run of the script (Spec)
    pc,               \* position of the script
    catalog,          \* sqlite_master of the source: table names in source-native order
    tables,           \* the script's list `tables`
    idx,              \* position of the for-loop over `tables` (1-based)
    row,              \* position of the loop over `rows` of the current table
    col,              \* position of the loop over the cells of the current row
    nrows,            \* len(rows) of the current table
    schema_sql,       \* the accumulator `schema_sql`
    import_sql,       \* the accumulator `import_sql`
    csv_files,        \* exported row artifacts: table -> number of data rows written
    conn,             \* the source connection: how often it was opened and closed
    error,            \* the exception that ended the run, "none" if none
    now,              \* wall clock, in seconds
    schema_file,      \* content of schema_postgres.sql
    import_file,      \* content of import_to_postgres.sql
    run,              \* number of the current run of the script
    prev_schema_file, \* schema_postgres.sql as the previous run left it
    prev_import_file, \* import_to_postgres.sql as the previous run left it
    prev_now,         \* the second in which the previous run wrote its schema file
    \* ---- one cleaning call (SpecClean)
    cell,             \* [name, value]: the column name and raw value of a cell
    cleaned,          \* outcome of the cleaning dispatch on `cell`
    \* ---- the destination executing the load script (SpecLoad)
    script,           \* the load script being executed
    ip,               \* next statement of the script
    pass,             \* number of the current execution of the script
    final,            \* destination tables: table -> sequence of rows
    staging,          \* staging tables: table -> [exists, rows]
    csv_data,         \* content of the row artifacts read by \COPY
    after_first       \* destination tables as the first execution left them

runVars == <<pc, catalog, tables, idx, row, col, nrows, schema_sql, import_sql,
              csv_files, conn, error, now, schema_file, import_file, run,
              prev_schema_file, prev_import_file, prev_now>>
cleanVars == <<cell, cleaned>>
loadVars == <<script, ip, pass, final, staging, csv_data, after_first>>
vars == <<runVars, cleanVars, loadVars>>

----------------------------------------------------------------------------
(* Python values as sqlite3 hands them to the script.  An integer or float *)
(* magnitude is a*2^42 + b*2^21 + c in three 21-bit limbs, so that the     *)
(* signed 64-bit bounds of clean_integer are representable; magnitudes of  *)
(* 2^64 and more saturate at a = 2^22.                                     *)

Limb == 2^21

Num(neg, a, b, c, frac) ==
    [cls |-> "finite", neg |-> neg, a |-> a, b |-> b, c |-> c, frac |-> frac]
Zero == Num(FALSE, 0, 0, 0, FALSE)
Inf(neg) == [cls |-> "inf", neg |-> neg, a |-> 0, b |-> 0, c |-> 0, frac |-> FALSE]
NaN == [cls |-> "nan", neg |-> FALSE, a |-> 0, b |-> 0, c |-> 0, frac |-> FALSE]

None == [t |-> "none", x |-> Zero, s |-> ""]
IntV(x) == [t |-> "int", x |-> x, s |-> ""]
FloatV(x) == [t |-> "float", x |-> x, s |-> ""]
StrV(s) == [t |-> "str", x |-> Zero, s |-> s]

Small(n) == IF n < 0 THEN Num(TRUE, 0, 0, -n, FALSE) ELSE Num(FALSE, 0, 0, n, FALSE)
Int64Max == Num(FALSE, Limb - 1, Limb - 1, Limb - 1, FALSE)   \* 2^63 - 1
Int64Min == Num(TRUE, Limb, 0, 0, FALSE)                      \* -2^63
TwoTo63 == Num(FALSE, Limb, 0, 0, FALSE)                      \* 2^63
TwoTo53Plus1 == Num(FALSE, 2^11, 0, 1, FALSE)                 \* 2^53 + 1
Huge == Num(FALSE, 2 * Limb, 0, 0, FALSE)                     \* 1e30, saturated

\* outcome of a call: a returned value or a raised exception
Ret(v) == [exc |-> "none", v |-> v]
Raise(e) == [exc |-> e, v |-> None]

RECURSIVE BitLen(_)
BitLen(n) == IF n = 0 THEN 0 ELSE 1 + BitLen(n \div 2)

\* carry propagation after rounding up the low limb
Normalize(neg, a, b, c) ==
    LET b1 == b + (c \div Limb)
        a1 == a + (b1 \div Limb)
    IN  Num(neg, IF a1 > 2 * Limb THEN 2 * Limb ELSE a1, b1 % Limb, c % Limb, FALSE)

\* float(int): round to nearest-even at 53 significant bits
RoundToDouble(x) ==
    IF x.a < 2^11 THEN x
    ELSE LET e    == BitLen(x.a) - 11
             q    == 2^e
             r    == x.c % q
             down == x.c - r
             up   == \/ 2 * r > q
                     \/ 2 * r = q /\ (down \div q) % 2 = 1
         IN  Normalize(x.neg, x.a, x.b, IF up THEN down + q ELSE down)

\* float(str) on the strings of the model
StrToFloat(s) ==
    CASE s = "42"                   -> Ret(FloatV(Small(42)))
      [] s = " 42 "                 -> Ret(FloatV(Small(42)))
      [] s = "42.9"                 -> Ret(FloatV(Num(FALSE, 0, 0, 42, TRUE)))
      [] s = "-7.5"                 -> Ret(FloatV(Num(TRUE, 0, 0, 7, TRUE)))
      [] s = "9223372036854775807"  -> Ret(FloatV(RoundToDouble(Int64Max)))
      [] s = "-9223372036854775808" -> Ret(FloatV(RoundToDouble(Int64Min)))
      [] s = "1e30"                 -> Ret(FloatV(Huge))
      [] s = "1e400"                -> Ret(FloatV(Inf(FALSE)))
      [] s = "-1e400"               -> Ret(FloatV(Inf(TRUE)))
      [] s = "inf"                  -> Ret(FloatV(Inf(FALSE)))
      [] s = "nan"                  -> Ret(FloatV(NaN))
      [] OTHER                      -> Raise("ValueError")

\* float(value)
float(value) ==
    CASE value.t = "none"  -> Raise("TypeError")
      [] value.t = "int"   -> Ret(FloatV(RoundToDouble(value.x)))
      [] value.t = "float" -> Ret(value)
      [] value.t = "str"   -> StrToFloat(value.s)

\* int(f) of a float f: truncation toward zero
int(f) ==
    CASE f.x.cls = "inf" -> Raise("OverflowError")
      [] f.x.cls = "nan" -> Raise("ValueError")
      [] OTHER           -> Ret(IntV(Num(f.x.neg /\ (f.x.a + f.x.b + f.x.c > 0),
                                         f.x.a, f.x.b, f.x.c, FALSE)))

\* -2**63 <= val <= 2**63 - 1
InInt64(x) ==
    IF x.neg THEN x.a < Limb \/ (x.a = Limb /\ x.b = 0 /\ x.c = 0)
    ELSE x.a < Limb

Caught == {"ValueError", "TypeError"}

clean_integer(value) ==
    IF value.t = "none" THEN Ret(None)
    ELSE LET f == float(value) IN
         IF f.exc \in Caught THEN Ret(None)
         ELSE IF f.exc # "none" THEN f
         ELSE LET val == int(f.v) IN
              IF val.exc \in Caught THEN Ret(None)
              ELSE IF val.exc # "none" THEN val
              ELSE IF InInt64(val.v.x) THEN val ELSE Ret(None)

----------------------------------------------------------------------------
(* Timestamp cleaning.  TLA+ strings are atomic, so str.replace and        *)
(* datetime.fromisoformat are tabulated on the strings of the model.       *)

\* value.replace('Z', '+00:00')
ReplaceZ(s) ==
    IF s = "2024-07-27T20:20:00Z" THEN "2024-07-27T20:20:00+00:00" ELSE s

\* value.replace(' ', 'T')
ReplaceSpace(s) ==
    CASE s = "2024-07-27 20:20:00" -> "2024-07-27T20:20:00"
      [] s = "2024-13-45 00:00:00" -> "2024-13-45T00:00:00"
      [] s = "not a date"          -> "notTaTdate"
      [] s = " 42 "                -> "T42T"
      [] OTHER                     -> s

DateTime(d, t, tz) == [date |-> d, time |-> t, tz |-> tz]

\* datetime.fromisoformat(s): the datetime, or ValueError
fromisoformat(s) ==
    CASE s = "2024-07-27T20:20:00+00:00" ->
             [exc |-> "none", dt |-> DateTime("2024-07-27", "20:20:00", "+0000")]
      [] s = "2024-07-27T20:20:00" ->
             [exc |-> "none", dt |-> DateTime("2024-07-27", "20:20:00", "")]
      [] s = "2024-07-27" ->
             [exc |-> "none", dt |-> DateTime("2024-07-27", "00:00:00", "")]
      [] OTHER ->
             [exc |-> "ValueError", dt |-> DateTime("", "", "")]

\* dt.strftime('%Y-%m-%d %H:%M:%S%z')
strftime(dt) == dt.date \o " " \o dt.time \o dt.tz

\* Python truth value of a value: None, "", 0 and 0.0 are false
Truthy(value) ==
    CASE value.t = "none" -> FALSE
      [] value.t = "str"  -> value.s # ""
      [] OTHER            -> value.x.cls # "finite" \/ value.x.a + value.x.b + value.x.c > 0
                             \/ value.x.frac

clean_timestamp(value) ==
    IF Truthy(value) /\ value.t = "str"
    THEN LET dt == fromisoformat(ReplaceSpace(ReplaceZ(value.s))) IN
         IF dt.exc \in Caught THEN Ret(None) ELSE Ret(StrV(strftime(dt.dt)))
    ELSE Ret(value)

\* col_name.endswith(suffix) and `sub in col_name` on the column names of the model
endswith(name, suffix) ==
    CASE suffix = "_updated" -> name \in {"last_updated"}
      [] suffix = "_date"    -> name \in {"price_date", "valid_date"}
      [] OTHER               -> FALSE

contains(name, sub) ==
    CASE sub = "shares" -> name \in {"shares", "shares_updated_by"}
      [] sub = "id"     -> name \in {"company_id", "id", "valid_date", "provider"}
      [] OTHER          -> FALSE

\* which cleaning rule the dispatch selects for a column
CleaningRule(col_name) ==
    IF endswith(col_name, "_updated") \/ endswith(col_name, "_date") THEN "timestamp"
    ELSE IF contains(col_name, "shares") \/ contains(col_name, "id") THEN "integer"
    ELSE "none"

\* the body of the loop over the cells of a row
clean_cell(col_name, value) ==
    CASE CleaningRule(col_name) = "timestamp" -> clean_timestamp(value)
      [] CleaningRule(col_name) = "integer"   -> clean_integer(value)
      [] OTHER                                -> Ret(value)

ColumnNames == {"company_id", "name", "last_updated", "id", "shares", "price_date",
                "price", "url", "code", "rate", "valid_date", "provider",
                "shares_updated_by"}

RawStrings == {"42", " 42 ", "42.9", "-7.5", "9223372036854775807",
               "-9223372036854775808", "1e30", "1e400", "-1e400", "inf", "nan",
               "abc", "", "2024-07-27T20:20:00Z", "2024-07-27 20:20:00",
               "2024-07-27", "2024-13-45 00:00:00", "not a date"}

\* what a sqlite3 cursor can return in a cell: None, int (64-bit), float, str
RawValues ==
    {None}
    \cup {IntV(x) : x \in {Zero, Small(42), Small(-7), Int64Max, Int64Min, TwoTo53Plus1}}
    \cup {FloatV(x) : x \in {Num(FALSE, 0, 0, 42, TRUE), TwoTo63, Huge, Inf(FALSE),
                             Inf(TRUE), NaN}}
    \cup {StrV(s) : s \in RawStrings}

Pending == [rule |-> "pending", exc |-> "none", v |-> None]

InitClean ==
    /\ cell \in [name : ColumnNames, value : RawValues]
    /\ cleaned = Pending

\* one pass of the cell loop body on `cell`
CleanCell ==
    /\ cleaned.rule = "pending"
    /\ LET r == clean_cell(cell.name, cell.value) IN
       cleaned' = [rule |-> CleaningRule(cell.name), exc |-> r.exc, v |-> r.v]
    /\ UNCHANGED cell

----------------------------------------------------------------------------
(* The source database.  PRAGMA table_info yields, per column, its name,   *)
(* declared type, notnull flag, default (<<>> for None) and pk flag: 0 for *)
(* a column outside the primary key, else its 1-based position in the key. *)

Column(name, type, notnull, dflt, pk) ==
    [name |-> name, type |-> type, notnull |-> notnull, dflt |-> dflt, pk |-> pk]

\* the tables a source database of the model may hold
SourceTables == {"companies", "financials", "stock_prices", "company_urls",
                 "exchange_rates", "sqlite_sequence"}

\* cursor.execute("PRAGMA table_info(table)"); cursor.fetchall()
table_info(table) ==
    CASE table = "companies" ->
           << Column("company_id", "INTEGER", 0, <<>>, 1),
              Column("name", "TEXT", 1, <<>>, 0),
              Column("last_updated", "DATETIME", 0, <<"CURRENT_TIMESTAMP">>, 0) >>
      [] table = "financials" ->
           << Column("id", "INTEGER", 1, <<>>, 1),
              Column("company_id", "INTEGER", 1, <<>>, 0),
              Column("shares", "integer", 0, <<"0">>, 0) >>
      [] table = "stock_prices" ->
           << Column("company_id", "INTEGER", 1, <<>>, 1),
              Column("price_date", "TEXT", 1, <<>>, 2),
              Column("price", "REAL", 0, <<>>, 0) >>
      [] table = "company_urls" ->
           << Column("company_id", "INTEGER", 0, <<>>, 0),
              Column("url", "", 0, <<>>, 0) >>
      [] table = "exchange_rates" ->
           << Column("code", "VARCHAR(3)", 0, <<>>, 1),
              Column("rate", "REAL", 1, <<"1.0">>, 0) >>
      [] table = "sqlite_sequence" ->
           << Column("name", "", 0, <<>>, 0),
              Column("seq", "", 0, <<>>, 0) >>

MaxTables == 3
MaxRows == 2
MaxClock == 1

\* sequences of distinct table names: the possible contents of sqlite_master
Catalogs ==
    {c \in UNION {[1..n -> SourceTables] : n \in 0..MaxTables} :
        \A i, j \in DOMAIN c : i # j => c[i] # c[j]}

----------------------------------------------------------------------------
(* Catalog reader and table order                                          *)

\* [row[0] for row in cursor.fetchall() if row[0] != 'sqlite_sequence']
ListTables(master) == SelectSeq(master, LAMBDA t : t # "sqlite_sequence")

\* faulty variant of MoveToFront: the root table is appended instead of inserted at 0
MoveToFrontAppends(ts) ==
    IF \E i \in DOMAIN ts : ts[i] = "companies"
    THEN SelectSeq(ts, LAMBDA t : t # "companies") \o <<"companies">>
    ELSE ts

\* tables.remove('companies'); tables.insert(0, 'companies')
MoveToFront(ts) ==
    IF \E i \in DOMAIN ts : ts[i] = "companies"
    THEN <<"companies">> \o SelectSeq(ts, LAMBDA t : t # "companies")
    ELSE ts

----------------------------------------------------------------------------
(* Schema translator                                                       *)

\* sqlite_type.upper() on the declared types of the model
upper(type) == IF type = "integer" THEN "INTEGER" ELSE type

\* a Python truth test of the pk flag
IsTrue(flag) == flag # 0

map_sqlite_to_postgres(sqlite_type, is_pk) ==
    LET u == upper(sqlite_type) IN
    CASE u = "INTEGER"  -> IF IsTrue(is_pk) THEN "BIGSERIAL" ELSE "BIGINT"
      [] u = "TEXT"     -> "TEXT"
      [] u = "REAL"     -> "DOUBLE PRECISION"
      [] u = "DATETIME" -> "TIMESTAMP WITH TIME ZONE"
      [] u = ""         -> "TEXT"
      [] OTHER          -> "TEXT"

\* faulty variant of pk_columns: the filter reads the default (col[4]), not the pk flag
pk_columns_reads_default(columns) ==
    LET keyed == SelectSeq(columns, LAMBDA c : c.dflt = <<"1">>)
    IN  [i \in DOMAIN keyed |-> keyed[i].name]

\* [col[1] for col in columns if col[5] == 1]
pk_columns(columns) ==
    LET keyed == SelectSeq(columns, LAMBDA c : c.pk = 1)
    IN  [i \in DOMAIN keyed |-> keyed[i].name]

\* the " NOT NULL" and " DEFAULT ..." clauses of a column line
NotNullClause(c) == IsTrue(c.notnull) /\ ~IsTrue(c.pk)

Constraints(c) ==
    (IF NotNullClause(c) THEN " NOT NULL" ELSE "")
    \o (IF c.dflt # <<>> /\ ~IsTrue(c.pk) THEN " DEFAULT " \o c.dflt[1] ELSE "")

\* one CREATE TABLE statement: its column lines (comma: the line ends with
\* a separator) and the columns of its CONSTRAINT ... PRIMARY KEY line,
\* <<>> when the statement has no such line
TableSql(table, columns) ==
    LET pk == pk_columns(columns) IN
    [table   |-> table,
     columns |-> [i \in DOMAIN columns |->
                    [name        |-> columns[i].name,
                     pg_type     |-> map_sqlite_to_postgres(columns[i].type, columns[i].pk),
                     constraints |-> Constraints(columns[i]),
                     comma       |-> pk # <<>> \/ i < Len(columns)]],
     pkey    |-> pk]

----------------------------------------------------------------------------
(* Load-script generator                                                   *)

Stmt(op, table, path, conflict, set) ==
    [op |-> op, table |-> table, path |-> path, conflict |-> conflict, set |-> set]

\* faulty variant of CsvPath: the row artifact is named after the time of the export
CsvPathStamped(table) == "exported_csvs/" \o table \o "_" \o ToString(now) \o ".csv"

\* os.path.join(OUTPUT_DIR, f"{table}.csv")
CsvPath(table) == "exported_csvs/" \o table \o ".csv"

\* col[1] for col in columns if col[1] not in pk_columns
SetColumns(columns, pk) ==
    LET rest == SelectSeq(columns, LAMBDA c : \A i \in DOMAIN pk : pk[i] # c.name)
    IN  [i \in DOMAIN rest |-> rest[i].name]

\* any(col[1] == 'company_id' for col in columns)
has_company_id(columns) == \E i \in DOMAIN columns : columns[i].name = "company_id"

\* faulty variant of ImportBlock: the pruning is not withheld from the root table
ImportBlockPrunesRoot(table, columns) ==
    LET pk == pk_columns(columns) IN
    << Stmt("CREATE STAGING", table, "", <<>>, <<>>),
       Stmt("TRUNCATE STAGING", table, "", <<>>, <<>>),
       Stmt("COPY STAGING", table, CsvPath(table), <<>>, <<>>) >>
    \o (IF pk # <<>>
        THEN (IF has_company_id(columns)
              THEN << Stmt("DELETE ORPHANS", table, "", <<>>, <<>>) >>
              ELSE << >>)
             \o << Stmt("UPSERT", table, "", pk, SetColumns(columns, pk)) >>
        ELSE << Stmt("INSERT", table, "", <<>>, <<>>) >>)
    \o << Stmt("DROP STAGING", table, "", <<>>, <<>>) >>

\* faulty variant of ImportBlock: the pruning DELETE is appended after the merge
ImportBlockMergesFirst(table, columns) ==
    LET pk == pk_columns(columns) IN
    << Stmt("CREATE STAGING", table, "", <<>>, <<>>),
       Stmt("TRUNCATE STAGING", table, "", <<>>, <<>>),
       Stmt("COPY STAGING", table, CsvPath(table), <<>>, <<>>) >>
    \o (IF pk # <<>>
        THEN << Stmt("UPSERT", table, "", pk, SetColumns(columns, pk)) >>
             \o (IF table # "companies" /\ has_company_id(columns)
                 THEN << Stmt("DELETE ORPHANS", table, "", <<>>, <<>>) >>
                 ELSE << >>)
        ELSE << Stmt("INSERT", table, "", <<>>, <<>>) >>)
    \o << Stmt("DROP STAGING", table, "", <<>>, <<>>) >>

\* the statements one table appends to import_sql
ImportBlock(table, columns) ==
    LET pk == pk_columns(columns) IN
    << Stmt("CREATE STAGING", table, "", <<>>, <<>>),
       Stmt("TRUNCATE STAGING", table, "", <<>>, <<>>),
       Stmt("COPY STAGING", table, CsvPath(table), <<>>, <<>>) >>
    \o (IF pk # <<>>
        THEN (IF table # "companies" /\ has_company_id(columns)
              THEN << Stmt("DELETE ORPHANS", table, "", <<>>, <<>>) >>
              ELSE << >>)
             \o << Stmt("UPSERT", table, "", pk, SetColumns(columns, pk)) >>
        ELSE << Stmt("INSERT", table, "", <<>>, <<>>) >>)
    \o << Stmt("DROP STAGING", table, "", <<>>, <<>>) >>

----------------------------------------------------------------------------
(* The two aggregate artifacts                                             *)

\* the tables named by the eight fixed ALTER TABLE ... FOREIGN KEY statements
ForeignKeyTables == << "financials", "capital_structure", "mineral_estimates",
                       "production", "costs", "valuation_metrics", "company_urls",
                       "stock_prices" >>

\* datetime.now().strftime('%Y-%m-%d %H:%M:%S'): the second of the clock
SchemaHeader(t) == "-- PostgreSQL Schema Generated on " \o ToString(t)

\* content of schema_postgres.sql
SchemaScript(t, defs) ==
    [header |-> SchemaHeader(t), tables |-> defs, fkeys |-> ForeignKeyTables]

NoFile == [header |-> "", tables |-> <<>>, fkeys |-> <<>>]

----------------------------------------------------------------------------
(* One run of the script, statement group by statement group.  An          *)
(* exception that no handler catches ends the run where it is raised:      *)
(* pc = "aborted" and `error` names it.                                    *)

NoConn == [opened |-> 0, closed |-> 0]

IdleClean == cell = [name |-> "name", value |-> None] /\ cleaned = Pending

IdleLoad ==
    /\ script = <<>>
    /\ ip = 1
    /\ pass = 1
    /\ final = <<>>
    /\ staging = <<>>
    /\ csv_data = <<>>
    /\ after_first = <<>>

InitRun ==
    /\ pc = "start"
    /\ catalog \in Catalogs
    /\ tables = <<>>
    /\ idx = 1
    /\ row = 1
    /\ col = 1
    /\ nrows = 0
    /\ schema_sql = <<>>
    /\ import_sql = <<>>
    /\ csv_files = {}
    /\ conn = NoConn
    /\ error = "none"
    /\ now = 0
    /\ schema_file = NoFile
    /\ import_file = <<>>
    /\ run = 1
    /\ prev_schema_file = NoFile
    /\ prev_import_file = <<>>
    /\ prev_now = 0

Init == InitRun /\ IdleClean /\ IdleLoad

Abort(e) == pc' = "aborted" /\ error' = e

columns == table_info(tables[idx])

\* how the cleaning of a cell of a column can end, over the values of the cell:
\* "none" when it returns, else the exception it raises
CellOutcomes(col_name) == {clean_cell(col_name, value).exc : value \in RawValues}

\* conn = sqlite3.connect(DB_PATH) ... tables.insert(0, 'companies')
Connect ==
    /\ pc = "start"
    /\ conn' = [conn EXCEPT !.opened = @ + 1]
    /\ tables' = MoveToFront(ListTables(catalog))
    /\ schema_sql' = <<>>
    /\ import_sql' = <<>>
    /\ idx' = 1
    /\ pc' = "loop"
    /\ UNCHANGED <<catalog, row, col, nrows, csv_files, error, now, schema_file,
                   import_file, run, prev_schema_file, prev_import_file, prev_now>>
    /\ UNCHANGED <<cleanVars, loadVars>>

\* the query on sqlite_master raises (the file is no database)
ListTablesFails ==
    /\ pc = "start"
    /\ conn' = [conn EXCEPT !.opened = @ + 1]
    /\ Abort("DatabaseError")
    /\ UNCHANGED <<catalog, tables, idx, row, col, nrows, schema_sql, import_sql,
                   csv_files, now, schema_file, import_file, run, prev_schema_file,
                   prev_import_file, prev_now>>
    /\ UNCHANGED <<cleanVars, loadVars>>

\* for table in tables: PRAGMA table_info, SELECT *, open the csv, write the header
BeginTable ==
    /\ pc = "loop"
    /\ idx <= Len(tables)
    /\ \E n \in 0..MaxRows : nrows' = n
    /\ row' = 1
    /\ col' = 1
    /\ csv_files' = csv_files \ {tables[idx]}
    /\ pc' = "rows"
    /\ UNCHANGED <<catalog, tables, idx, schema_sql, import_sql, conn, error, now,
                   schema_file, import_file, run, prev_schema_file, prev_import_file, prev_now>>
    /\ UNCHANGED <<cleanVars, loadVars>>

\* PRAGMA table_info or SELECT * raises, or the csv file cannot be opened
BeginTableFails ==
    /\ pc = "loop"
    /\ idx <= Len(tables)
    /\ \E e \in {"OperationalError", "OSError"} : Abort(e)
    /\ UNCHANGED <<catalog, tables, idx, row, col, nrows, schema_sql, import_sql,
                   csv_files, conn, now, schema_file, import_file, run,
                   prev_schema_file, prev_import_file, prev_now>>
    /\ UNCHANGED <<cleanVars, loadVars>>

\* for col_name, value in zip(column_names, row): the cell is cleaned and appended
ExportCell ==
    /\ pc = "rows"
    /\ row <= nrows
    /\ "none" \in CellOutcomes(columns[col].name)
    /\ IF col < Len(columns)
       THEN col' = col + 1 /\ row' = row
       ELSE col' = 1 /\ row' = row + 1
    /\ UNCHANGED <<pc, catalog, tables, idx, nrows, schema_sql, import_sql, csv_files,
                   conn, error, now, schema_file, import_file, run, prev_schema_file,
                   prev_import_file, prev_now>>
    /\ UNCHANGED <<cleanVars, loadVars>>

\* the cleaning of the cell raises
ExportCellRaises ==
    /\ pc = "rows"
    /\ row <= nrows
    /\ \E e \in CellOutcomes(columns[col].name) \ {"none"} : Abort(e)
    /\ UNCHANGED <<catalog, tables, idx, row, col, nrows, schema_sql, import_sql,
                   csv_files, conn, now, schema_file, import_file, run,
                   prev_schema_file, prev_import_file, prev_now>>
    /\ UNCHANGED <<cleanVars, loadVars>>

\* writer.writerows(cleaned_rows), then the table's schema and import statements
FinishTable ==
    /\ pc = "rows"
    /\ row > nrows
    /\ csv_files' = csv_files \cup {tables[idx]}
    /\ schema_sql' = Append(schema_sql, TableSql(tables[idx], columns))
    /\ import_sql' = import_sql \o ImportBlock(tables[idx], columns)
    /\ idx' = idx + 1
    /\ pc' = "loop"
    /\ UNCHANGED <<catalog, tables, row, col, nrows, conn, error, now, schema_file,
                   import_file, run, prev_schema_file, prev_import_file, prev_now>>
    /\ UNCHANGED <<cleanVars, loadVars>>

\* writer.writerows raises
WriteRowsFails ==
    /\ pc = "rows"
    /\ row > nrows
    /\ Abort("OSError")
    /\ UNCHANGED <<catalog, tables, idx, row, col, nrows, schema_sql, import_sql,
                   csv_files, conn, now, schema_file, import_file, run,
                   prev_schema_file, prev_import_file, prev_now>>
    /\ UNCHANGED <<cleanVars, loadVars>>

\* with open(SCHEMA_OUTPUT, 'w'): header with datetime.now(), definitions, foreign keys
WriteSchema ==
    /\ pc = "loop"
    /\ idx > Len(tables)
    /\ \E t \in now..MaxClock :
          /\ now' = t
          /\ schema_file' = SchemaScript(t, schema_sql)
    /\ pc' = "write_import"
    /\ UNCHANGED <<catalog, tables, idx, row, col, nrows, schema_sql, import_sql,
                   csv_files, conn, error, import_file, run, prev_schema_file,
                   prev_import_file, prev_now>>
    /\ UNCHANGED <<cleanVars, loadVars>>

\* the schema file cannot be opened for writing
WriteSchemaFails ==
    /\ pc = "loop"
    /\ idx > Len(tables)
    /\ Abort("OSError")
    /\ UNCHANGED <<catalog, tables, idx, row, col, nrows, schema_sql, import_sql,
                   csv_files, conn, now, schema_file, import_file, run,
                   prev_schema_file, prev_import_file, prev_now>>
    /\ UNCHANGED <<cleanVars, loadVars>>

\* with open(IMPORT_SCRIPT, 'w'): f.write("\n".join(import_sql))
WriteImport ==
    /\ pc = "write_import"
    /\ import_file' = import_sql
    /\ pc' = "close"
    /\ UNCHANGED <<catalog, tables, idx, row, col, nrows, schema_sql, import_sql,
                   csv_files, conn, error, now, schema_file, run, prev_schema_file,
                   prev_import_file, prev_now>>
    /\ UNCHANGED <<cleanVars, loadVars>>

\* the import script cannot be opened for writing
WriteImportFails ==
    /\ pc = "write_import"
    /\ Abort("OSError")
    /\ UNCHANGED <<catalog, tables, idx, row, col, nrows, schema_sql, import_sql,
                   csv_files, conn, now, schema_file, import_file, run,
                   prev_schema_file, prev_import_file, prev_now>>
    /\ UNCHANGED <<cleanVars, loadVars>>

\* conn.close()
Close ==
    /\ pc = "close"
    /\ conn' = [conn EXCEPT !.closed = @ + 1]
    /\ pc' = "done"
    /\ UNCHANGED <<catalog, tables, idx, row, col, nrows, schema_sql, import_sql,
                   csv_files, error, now, schema_file, import_file, run,
                   prev_schema_file, prev_import_file, prev_now>>
    /\ UNCHANGED <<cleanVars, loadVars>>

\* the script is started again on the unchanged source: a new process, whose
\* module-level state is fresh; the files of the previous run stay on disk
Rerun ==
    /\ pc = "done"
    /\ run = 1
    /\ run' = run + 1
    /\ prev_schema_file' = schema_file
    /\ prev_import_file' = import_file
    /\ prev_now' = now
    /\ pc' = "start"
    /\ conn' = NoConn
    /\ tables' = <<>>
    /\ idx' = 1
    /\ row' = 1
    /\ col' = 1
    /\ nrows' = 0
    /\ schema_sql' = <<>>
    /\ import_sql' = <<>>
    /\ UNCHANGED <<catalog, csv_files, error, now, schema_file, import_file>>
    /\ UNCHANGED <<cleanVars, loadVars>>

Next ==
    \/ Connect
    \/ ListTablesFails
    \/ BeginTable
    \/ BeginTableFails
    \/ ExportCell
    \/ ExportCellRaises
    \/ FinishTable
    \/ WriteRowsFails
    \/ WriteSchema
    \/ WriteSchemaFails
    \/ WriteImport
    \/ WriteImportFails
    \/ Close
    \/ Rerun

Spec == Init /\ [][Next]_vars

----------------------------------------------------------------------------
(* The destination: a PostgreSQL database on which the generated schema    *)
(* was applied, executing the generated load script top to bottom with     *)
(* psql's defaults (autocommit; a failing statement changes nothing and    *)
(* the script goes on).  A row maps column names to csv fields; with       *)
(* NULL '', the empty field is NULL.                                       *)

MaxCsvRows == 1

NULL == ""

RECURSIVE ImportScript(_)
\* import_sql after the loop over `ts`
ImportScript(ts) ==
    IF ts = <<>> THEN <<>>
    ELSE ImportBlock(Head(ts), table_info(Head(ts))) \o ImportScript(Tail(ts))

ColumnNamesOf(table) == {table_info(table)[i].name : i \in DOMAIN table_info(table)}

\* the fields the row artifacts of the model hold in a column
FieldDomain(name) ==
    CASE name = "company_id" -> {NULL, "1", "2"}
      [] name = "id"         -> {"1", "2"}
      [] name = "price_date" -> {"2024-07-26", "2024-07-27"}
      [] name = "code"       -> {"USD", "EUR"}
      [] OTHER               -> {"x"}

CsvRows(table) ==
    {r \in [ColumnNamesOf(table) -> UNION {FieldDomain(n) : n \in ColumnNamesOf(table)}] :
        \A n \in ColumnNamesOf(table) : r[n] \in FieldDomain(n)}

CsvContents(table) == UNION {[1..n -> CsvRows(table)] : n \in 0..MaxCsvRows}

Range(f) == {f[i] : i \in DOMAIN f}

\* the scripts of the model: generated from the catalogs of one table, or of
\* the root table and one other table, in either order
LoadTableLists ==
    {MoveToFront(ListTables(c)) :
        c \in {d \in Catalogs : Len(d) = 1 \/ (Len(d) = 2 /\ "companies" \in Range(d))}}

\* the destination schema, as the generated CREATE TABLE statement declares it
DestPrimaryKey(table) == TableSql(table, table_info(table)).pkey

\* a column is NOT NULL by its clause, as part of the primary key, or as BIGSERIAL
DestNotNull(table) ==
    {c.name : c \in {d \in Range(table_info(table)) :
        \/ NotNullClause(d)
        \/ d.name \in Range(DestPrimaryKey(table))
        \/ map_sqlite_to_postgres(d.type, d.pk) = "BIGSERIAL"}}

\* the ALTER TABLE of the schema script succeeded for this table
DestForeignKey(table) ==
    /\ table \in Range(ForeignKeyTables)
    /\ "company_id" \in ColumnNamesOf(table)
    /\ "companies" \in DOMAIN final
    /\ DestPrimaryKey("companies") = <<"company_id">>

Key(r, key) == [i \in DOMAIN key |-> r[key[i]]]

CompanyIds == IF "companies" \in DOMAIN final
              THEN {final["companies"][i]["company_id"] : i \in DOMAIN final["companies"]}
              ELSE {}

\* r.company_id NOT IN (SELECT company_id FROM companies) is true
NotInCompanies(r) == r["company_id"] \notin CompanyIds /\ NULL \notin CompanyIds

NotNullOk(table, rows) ==
    \A i \in DOMAIN rows : \A n \in DestNotNull(table) : rows[i][n] # NULL

ForeignKeyOk(table, rows) ==
    DestForeignKey(table) =>
        \A i \in DOMAIN rows : rows[i]["company_id"] \in CompanyIds \cup {NULL}

UniqueOk(rows, key) ==
    \A i, j \in DOMAIN rows : i # j => Key(rows[i], key) # Key(rows[j], key)

InitLoad ==
    /\ \E ts \in LoadTableLists :
          /\ script = ImportScript(ts)
          /\ final = [t \in Range(ts) |-> <<>>]
          /\ staging = [t \in Range(ts) |-> [exists |-> FALSE, rows |-> <<>>]]
          /\ csv_data \in {f \in [Range(ts) -> UNION {CsvContents(t) : t \in Range(ts)}] :
                              \A t \in Range(ts) : f[t] \in CsvContents(t)}
          /\ after_first = [t \in Range(ts) |-> <<>>]
    /\ ip = 1
    /\ pass = 1

stmt == script[ip]

Exec(op) == ip <= Len(script) /\ stmt.op = op /\ ip' = ip + 1

\* CREATE TABLE IF NOT EXISTS staging_t (LIKE t);
ExecCreateStaging ==
    /\ Exec("CREATE STAGING")
    /\ staging' = [staging EXCEPT ![stmt.table] =
                     IF @.exists THEN @ ELSE [exists |-> TRUE, rows |-> <<>>]]
    /\ UNCHANGED <<script, pass, final, csv_data, after_first>>
    /\ UNCHANGED <<runVars, cleanVars>>

\* TRUNCATE staging_t;
ExecTruncate ==
    /\ Exec("TRUNCATE STAGING")
    /\ staging' = [staging EXCEPT ![stmt.table].rows = <<>>]
    /\ UNCHANGED <<script, pass, final, csv_data, after_first>>
    /\ UNCHANGED <<runVars, cleanVars>>

\* \COPY staging_t FROM 'csv_path' WITH (FORMAT csv, HEADER true, NULL '');
ExecCopy ==
    /\ Exec("COPY STAGING")
    /\ staging' = [staging EXCEPT ![stmt.table].rows =
                     IF staging[stmt.table].exists /\ NotNullOk(stmt.table, csv_data[stmt.table])
                     THEN @ \o csv_data[stmt.table] ELSE @]
    /\ UNCHANGED <<script, pass, final, csv_data, after_first>>
    /\ UNCHANGED <<runVars, cleanVars>>

\* DELETE FROM staging_t WHERE company_id IS NOT NULL
\*   AND company_id NOT IN (SELECT company_id FROM companies);
ExecDeleteOrphans ==
    /\ Exec("DELETE ORPHANS")
    /\ staging' = [staging EXCEPT ![stmt.table].rows =
                     IF staging[stmt.table].exists /\ "companies" \in DOMAIN final
                     THEN SelectSeq(@, LAMBDA r :
                            ~(r["company_id"] # NULL /\ NotInCompanies(r)))
                     ELSE @]
    /\ UNCHANGED <<script, pass, final, csv_data, after_first>>
    /\ UNCHANGED <<runVars, cleanVars>>

\* INSERT INTO t SELECT * FROM staging_t ON CONFLICT (pk) DO UPDATE SET c = EXCLUDED.c, ...;
ExecUpsert ==
    /\ Exec("UPSERT")
    /\ LET t    == stmt.table
           rows == staging[t].rows
           ok   == /\ staging[t].exists
                   /\ stmt.set # <<>>
                   /\ stmt.conflict = DestPrimaryKey(t)
                   /\ NotNullOk(t, rows)
                   /\ UniqueOk(rows, stmt.conflict)
                   /\ ForeignKeyOk(t, rows)
           kept == SelectSeq(final[t], LAMBDA r :
                      \A i \in DOMAIN rows : Key(rows[i], stmt.conflict) # Key(r, stmt.conflict))
       IN  final' = [final EXCEPT ![t] = IF ok THEN kept \o rows ELSE @]
    /\ UNCHANGED <<script, pass, staging, csv_data, after_first>>
    /\ UNCHANGED <<runVars, cleanVars>>

\* INSERT INTO t SELECT * FROM staging_t;
ExecInsert ==
    /\ Exec("INSERT")
    /\ LET t    == stmt.table
           rows == staging[t].rows
           ok   == /\ staging[t].exists
                   /\ NotNullOk(t, rows)
                   /\ DestPrimaryKey(t) = <<>> \/ UniqueOk(final[t] \o rows, DestPrimaryKey(t))
                   /\ ForeignKeyOk(t, rows)
       IN  final' = [final EXCEPT ![t] = IF ok THEN @ \o rows ELSE @]
    /\ UNCHANGED <<script, pass, staging, csv_data, after_first>>
    /\ UNCHANGED <<runVars, cleanVars>>

\* DROP TABLE staging_t;
ExecDropStaging ==
    /\ Exec("DROP STAGING")
    /\ staging' = [staging EXCEPT ![stmt.table] = [exists |-> FALSE, rows |-> <<>>]]
    /\ UNCHANGED <<script, pass, final, csv_data, after_first>>
    /\ UNCHANGED <<runVars, cleanVars>>

\* the script is executed again, against the same row artifacts
ExecuteAgain ==
    /\ ip > Len(script)
    /\ pass = 1
    /\ pass' = pass + 1
    /\ ip' = 1
    /\ after_first' = final
    /\ UNCHANGED <<script, final, staging, csv_data>>
    /\ UNCHANGED <<runVars, cleanVars>>

IdleRun ==
    /\ pc = "done"
    /\ catalog = <<>>
    /\ tables = <<>>
    /\ idx = 1
    /\ row = 1
    /\ col = 1
    /\ nrows = 0
    /\ schema_sql = <<>>
    /\ import_sql = <<>>
    /\ csv_files = {}
    /\ conn = NoConn
    /\ error = "none"
    /\ now = 0
    /\ schema_file = NoFile
    /\ import_file = <<>>
    /\ run = 1
    /\ prev_schema_file = NoFile
    /\ prev_import_file = <<>>
    /\ prev_now = 0

NextLoad ==
    \/ ExecCreateStaging
    \/ ExecTruncate
    \/ ExecCopy
    \/ ExecDeleteOrphans
    \/ ExecUpsert
    \/ ExecInsert
    \/ ExecDropStaging
    \/ ExecuteAgain

LoadInit == InitLoad /\ IdleRun /\ IdleClean

SpecLoad == LoadInit /\ [][NextLoad]_vars

NextClean == CleanCell /\ UNCHANGED <<runVars, loadVars>>

CleanInit == InitClean /\ IdleRun /\ IdleLoad

SpecClean == CleanInit /\ [][NextClean]_vars

----------------------------------------------------------------------------
(* Properties                                                              *)

\* a table has a primary key: some column carries a non-zero pk flag
HasPrimaryKey(table) == \E c \in Range(table_info(table)) : c.pk > 0

\* the primary-key columns of a table, in the order the table declares them
DeclaredKey(table) ==
    LET keyed == SelectSeq(table_info(table), LAMBDA c : c.pk > 0)
    IN  [i \in DOMAIN keyed |-> keyed[i].name]

Enumerated == SelectSeq(catalog, LAMBDA t : t # "sqlite_sequence")

WithoutRoot(ts) == SelectSeq(ts, LAMBDA t : t # "companies")

\* ts lists the enumerated tables, the root first, the others in source order
RootFirstOrder(ts) ==
    "companies" \in Range(Enumerated) =>
        /\ Len(ts) = Len(Enumerated)
        /\ ts[1] = "companies"
        /\ WithoutRoot(ts) = WithoutRoot(Enumerated)

\* the tables of the CREATE TABLE statements of a schema artifact, in file order
DefinedTables(file) == [i \in DOMAIN file.tables |-> file.tables[i].table]

\* the tables of the blocks of a load script, in file order
BlockTables(f) ==
    LET starts == SelectSeq(f, LAMBDA st : st.op = "CREATE STAGING")
    IN  [i \in DOMAIN starts |-> starts[i].table]

SchemaWritten == pc \in {"write_import", "close", "done"}
ImportWritten == pc \in {"close", "done"}

\* C1: when the enumerated tables contain 'companies', the processing order
\* has 'companies' first and the other tables in source-native order; the
\* schema artifact and the load script list the tables in that same order,
\* every statement of the 'companies' block before any other table's.
C1_RootTableFirst ==
    /\ pc \in {"loop", "rows", "write_import", "close", "done"} => RootFirstOrder(tables)
    /\ SchemaWritten =>
          /\ RootFirstOrder(DefinedTables(schema_file))
          /\ DefinedTables(schema_file) = tables
    /\ ImportWritten =>
          /\ RootFirstOrder(BlockTables(import_file))
          /\ BlockTables(import_file) = DefinedTables(schema_file)
          /\ \A i, j \in DOMAIN import_file :
                import_file[i].table = "companies" /\ import_file[j].table # "companies"
                   => i < j

\* a finished run in which 'companies' was enumerated last of three tables
C1_Witness ==
    /\ pc = "done"
    /\ Len(Enumerated) = 3
    /\ Enumerated[3] = "companies"
    /\ tables[1] = "companies"

HasDelete(f, t) == \E i \in DOMAIN f : f[i].op = "DELETE ORPHANS" /\ f[i].table = t

\* C4: a table's load block holds the pruning DELETE if and only if the table
\* is not 'companies', has a primary key and has a column named 'company_id'.
C4_PruningIff ==
    /\ \A t \in Range(BlockTables(import_sql)) :
          HasDelete(import_sql, t) <=>
             (t # "companies" /\ HasPrimaryKey(t) /\ "company_id" \in ColumnNamesOf(t))
    /\ \A t \in Range(BlockTables(import_file)) :
          HasDelete(import_file, t) <=>
             (t # "companies" /\ HasPrimaryKey(t) /\ "company_id" \in ColumnNamesOf(t))

\* a written load script with the root table (keyed, with company_id, no DELETE),
\* a keyed dependent (DELETE) and a keyless table with company_id (no DELETE)
C4_Witness ==
    /\ pc = "done"
    /\ {"companies", "financials", "company_urls"} \subseteq Range(BlockTables(import_file))
    /\ HasDelete(import_file, "financials")
    /\ ~HasDelete(import_file, "companies")
    /\ ~HasDelete(import_file, "company_urls")

RECURSIVE BlocksFrom(_, _, _)
\* the statements of f from position i on are whole blocks of tables not in `seen`
BlocksFrom(f, i, seen) ==
    IF i > Len(f) THEN TRUE
    ELSE LET t == f[i].table
             j == IF i + 3 <= Len(f) /\ f[i + 3].op = "DELETE ORPHANS" THEN i + 4 ELSE i + 3
         IN  /\ j + 1 <= Len(f)
             /\ t \notin seen
             /\ f[i].op = "CREATE STAGING"
             /\ f[i + 1].op = "TRUNCATE STAGING"
             /\ f[i + 2].op = "COPY STAGING"
             /\ f[i + 2].path = CsvPath(t)
             /\ f[j].op = IF HasPrimaryKey(t) THEN "UPSERT" ELSE "INSERT"
             /\ f[j + 1].op = "DROP STAGING"
             /\ \A k \in i..(j + 1) : f[k].table = t
             /\ BlocksFrom(f, j + 2, seen \cup {t})

\* C10: the load script is one contiguous block per table, each block being
\* create staging, truncate, copy, the DELETE if emitted, one merge (upsert
\* iff the table has a primary key), drop staging.
C10_BlockOrder ==
    ImportWritten =>
        /\ BlocksFrom(import_file, 1, {})
        /\ Range(BlockTables(import_file)) = Range(tables)

\* a written load script with a block holding a DELETE and a block of a keyless table
C10_Witness ==
    /\ pc = "done"
    /\ \E i \in DOMAIN import_file :
          /\ import_file[i].op = "DELETE ORPHANS"
          /\ import_file[i + 1].op = "UPSERT"
    /\ \E i \in DOMAIN import_file : import_file[i].op = "INSERT"

SecondRunDone == run = 2 /\ pc = "done"

\* C3 as stated: two runs on an unchanged source leave byte-identical schema
\* and load-script artifacts, whenever they happen.
C3_ByteIdentical ==
    SecondRunDone => schema_file = prev_schema_file /\ import_file = prev_import_file

\* C3 amended: the load scripts are identical, the schema artifacts are
\* identical after their first line, and they are identical as a whole
\* exactly when both runs wrote them in the same clock second.
C3_IdenticalButTimestamp ==
    SecondRunDone =>
        /\ import_file = prev_import_file
        /\ schema_file.tables = prev_schema_file.tables
        /\ schema_file.fkeys = prev_schema_file.fkeys
        /\ (schema_file = prev_schema_file) <=> (now = prev_now)

\* a second run that finished in a later second than the first, over two tables or more
C3_Witness ==
    /\ SecondRunDone
    /\ now # prev_now
    /\ Len(schema_file.tables) >= 2
    /\ import_file # <<>>

\* C5 as stated: the PRIMARY KEY constraint of a table definition lists
\* exactly the table's primary-key columns, in declared order.
C5_ConstraintListsWholeKey ==
    \A i \in DOMAIN schema_sql :
        HasPrimaryKey(schema_sql[i].table) =>
            schema_sql[i].pkey = DeclaredKey(schema_sql[i].table)

\* C6 as stated: an INTEGER column is BIGSERIAL when it is the sole
\* primary-key column of its table, and BIGINT otherwise.
C6_SerialOnlyForSoleKey ==
    \A i \in DOMAIN schema_sql :
        LET t    == schema_sql[i].table
            cols == table_info(t)
        IN  \A k \in DOMAIN cols :
                cols[k].type \in {"INTEGER", "integer"} =>
                    schema_sql[i].columns[k].pg_type =
                        IF DeclaredKey(t) = <<cols[k].name>> THEN "BIGSERIAL" ELSE "BIGINT"

\* C7 as stated: integer cleaning never raises; it returns an integer in the
\* signed 64-bit range or null.
C7_CleanIntegerNeverRaises ==
    cleaned.rule = "integer" =>
        /\ cleaned.exc = "none"
        /\ \/ cleaned.v = None
           \/ cleaned.v.t = "int" /\ InInt64(cleaned.v.x)

IsoStrings == {"2024-07-27T20:20:00Z", "2024-07-27 20:20:00", "2024-07-27"}

Canonical(s) ==
    CASE s = "2024-07-27T20:20:00Z" -> "2024-07-27 20:20:00+0000"
      [] s = "2024-07-27 20:20:00"  -> "2024-07-27 20:20:00"
      [] s = "2024-07-27"           -> "2024-07-27 00:00:00"

\* C8 as stated: timestamp cleaning emits null for null, the canonical string
\* for a string that parses, and null for every other input.
C8_TimestampNullOtherwise ==
    cleaned.rule = "timestamp" =>
        /\ cleaned.exc = "none"
        /\ cleaned.v =
              IF cell.value.t = "str" /\ cell.value.s \in IsoStrings
              THEN StrV(Canonical(cell.value.s))
              ELSE None

\* C9 as stated: a run that ends after opening the connection, finished or
\* aborted, has closed it exactly once.
C9_ClosedExactlyOnce ==
    pc \in {"done", "aborted"} /\ conn.opened > 0 =>
        conn.opened = 1 /\ conn.closed = 1

\* two sequences of rows hold the same rows, each as often
SameContents(a, b) ==
    /\ Len(a) = Len(b)
    /\ \A r \in Range(a) \cup Range(b) :
          Cardinality({i \in DOMAIN a : a[i] = r}) = Cardinality({i \in DOMAIN b : b[i] = r})

ExecutedTwice == pass = 2 /\ ip > Len(script)

\* C2 as stated: after the second execution every final table holds what it
\* held after the first.
C2_IdempotentEveryTable ==
    ExecutedTwice => \A t \in DOMAIN final : SameContents(final[t], after_first[t])

\* C2 amended: after the second execution every final table that has a
\* primary key holds what it held after the first.
C2_IdempotentKeyedTables ==
    ExecutedTwice =>
        \A t \in DOMAIN final : HasPrimaryKey(t) => SameContents(final[t], after_first[t])

\* a second execution that upserted staged rows over the rows of the first
C2_Witness ==
    /\ ExecutedTwice
    /\ \E t \in DOMAIN final :
          /\ HasPrimaryKey(t)
          /\ t # "companies"
          /\ final[t] # <<>>
          /\ csv_data[t] # <<>>

=============================================================================
